---- MODULE Spec2Model ----
(***************************************************************************)
(* Model of app.py, the Streamlit "Multi-Purpose File Processor".          *)
(*                                                                         *)
(* One step of the model is one run of the script: the sidebar selection   *)
(* is dispatched by main() to an interface function, which (when a file is *)
(* uploaded and its button is pressed) calls a handler.  The state records *)
(* what that run did: the handler call and its arguments, the value the    *)
(* handler returned, the messages shown with st.error / st.info /          *)
(* st.success, the download offered, and whether an exception left the     *)
(* interface function.                                                     *)
(*                                                                         *)
(* Files are abstracted to the properties the code and the libraries it    *)
(* calls branch on: a PDF buffer is (valid, encrypted, user password,      *)
(* owner password, page sequence, producer); an image is (readable, mode,  *)
(* format, content, read cursor).                                          *)
(***************************************************************************)
EXTENDS Integers, Sequences, FiniteSets, TLC

VARIABLES
    operation,   \* the value of the sidebar selectbox (app.py:205-209)
    call,        \* the handler the last run called, with its arguments
    ret,         \* what that handler returned (None when it failed)
    reports,     \* the st.error / st.info / st.success messages of the run
    raised,      \* an exception left the interface function
    download     \* the st.download_button offered by the run

vars == <<operation, call, ret, reports, raised, download>>

(***************************************************************************)
(* Bounds of the model.                                                    *)
(***************************************************************************)
MaxPages == 2
MaxImages == 2

PageIds == {"A", "B"}
Passwords == {"", "k1", "k2"}

SeqsUpTo(S, n) == UNION {[1..k -> S] : k \in 0..n}

(***************************************************************************)
(* Values.                                                                 *)
(***************************************************************************)
None == [kind |-> "None"]
NoCall == [fn |-> "none"]
NoDownload == [kind |-> "none"]

Msg(level, text) == [level |-> level, text |-> text]

\* The outcome of a function: what it returned, what it showed, and whether
\* an exception left it.
Returned(v, msgs) == [ret |-> v, reports |-> msgs, raised |-> FALSE]
Raised(msgs) == [ret |-> None, reports |-> msgs, raised |-> TRUE]

(***************************************************************************)
(* PDF buffers.  gen tells the uploaded buffer from one serialised by      *)
(* PdfWriter.write: the two differ in their container bytes even when they *)
(* hold the same pages.                                                    *)
(***************************************************************************)
PdfBytes(valid, enc, user, owner, pages, gen) ==
    [kind |-> "pdf", valid |-> valid, enc |-> enc, user |-> user,
     owner |-> owner, pages |-> pages, gen |-> gen]

MalformedPdf == PdfBytes(FALSE, FALSE, "", "", <<>>, "upload")

PlainPdfs == {PdfBytes(TRUE, FALSE, "", "", p, "upload") : p \in SeqsUpTo(PageIds, MaxPages)}

EncryptedPdfs ==
    {PdfBytes(TRUE, TRUE, u, o, p, "upload") :
        u \in Passwords, o \in Passwords, p \in SeqsUpTo(PageIds, MaxPages)}

UploadedPdfs == {MalformedPdf} \cup PlainPdfs \cup EncryptedPdfs

(***************************************************************************)
(* pypdf, as decrypt_pdf and encrypt_pdf use it.                           *)
(***************************************************************************)
\* PdfReader(stream) parses the buffer; a malformed buffer raises.
PdfReaderOpens(b) == b.valid

\* reader.is_encrypted
is_encrypted(b) == b.enc

\* reader.decrypt(password): 0 (not decrypted), 1 (user password) or
\* 2 (owner password).
reader_decrypt(b, password) ==
    IF password = b.owner THEN 2 ELSE IF password = b.user THEN 1 ELSE 0

\* reader.pages of an encrypted document is readable once a password has
\* been accepted; PdfReader itself tries the empty password when it opens.
PagesReadable(b, accepted) ==
    ~is_encrypted(b) \/ accepted \/ reader_decrypt(b, "") # 0

\* PdfWriter: add_page for each page in order, then write.
WriterOutput(pages, enc, user, owner) ==
    PdfBytes(TRUE, enc, user, owner, pages, "writer")

\* Python's None as the default of owner_password.
OwnerDefault == "None"

\* Python's "a or b" on password arguments.
PyOr(a, b) == IF a = "" \/ a = OwnerDefault THEN b ELSE a

\* encrypt_pdf with the writer.encrypt call left out.
encrypt_pdf_without_encrypt(pdf_bytes, user_password, owner_password) ==
    IF ~PdfReaderOpens(pdf_bytes) \/ ~PagesReadable(pdf_bytes, FALSE)
    THEN Returned(None, <<Msg("error", "Encryption error")>>)
    ELSE Returned(WriterOutput(pdf_bytes.pages, FALSE, "", ""), <<>>)

encrypt_pdf(pdf_bytes, user_password, owner_password) ==
    IF ~PdfReaderOpens(pdf_bytes) \/ ~PagesReadable(pdf_bytes, FALSE)
    THEN Returned(None, <<Msg("error", "Encryption error")>>)
    ELSE Returned(WriterOutput(pdf_bytes.pages, TRUE, user_password,
                               PyOr(owner_password, user_password)), <<>>)

\* decrypt_pdf with a rejected password raised as an exception, which the
\* except clause then reports.
decrypt_pdf_raising_on_wrong_password(encrypted_pdf_bytes, password) ==
    IF ~PdfReaderOpens(encrypted_pdf_bytes)
    THEN Returned(None, <<Msg("error", "Decryption error")>>)
    ELSE IF is_encrypted(encrypted_pdf_bytes)
    THEN IF reader_decrypt(encrypted_pdf_bytes, password) # 0
         THEN Returned(WriterOutput(encrypted_pdf_bytes.pages, FALSE, "", ""), <<>>)
         ELSE Returned(None, <<Msg("error", "Decryption error")>>)
    ELSE Returned(encrypted_pdf_bytes, <<Msg("info", "PDF is not encrypted")>>)

\* decrypt_pdf with every opened document copied through PdfWriter.
decrypt_pdf_always_rewriting(encrypted_pdf_bytes, password) ==
    IF ~PdfReaderOpens(encrypted_pdf_bytes)
    THEN Returned(None, <<Msg("error", "Decryption error")>>)
    ELSE IF is_encrypted(encrypted_pdf_bytes)
            /\ reader_decrypt(encrypted_pdf_bytes, password) = 0
    THEN Returned(None, <<Msg("error", "Incorrect password")>>)
    ELSE Returned(WriterOutput(encrypted_pdf_bytes.pages, FALSE, "", ""),
                  IF is_encrypted(encrypted_pdf_bytes)
                  THEN <<>> ELSE <<Msg("info", "PDF is not encrypted")>>)

decrypt_pdf(encrypted_pdf_bytes, password) ==
    IF ~PdfReaderOpens(encrypted_pdf_bytes)
    THEN Returned(None, <<Msg("error", "Decryption error")>>)
    ELSE IF is_encrypted(encrypted_pdf_bytes)
    THEN IF reader_decrypt(encrypted_pdf_bytes, password) # 0
         THEN Returned(WriterOutput(encrypted_pdf_bytes.pages, FALSE, "", ""), <<>>)
         ELSE Returned(None, <<Msg("error", "Incorrect password")>>)
    ELSE Returned(encrypted_pdf_bytes, <<Msg("info", "PDF is not encrypted")>>)

(***************************************************************************)
(* main(): the sidebar selectbox and the if/elif chain.                    *)
(***************************************************************************)
SidebarOptions ==
    {"PDF to Images", "Images to PDF", "Resize Images", "Compress Images",
     "OCR Text Extraction", "PDF Security"}

\* The chain with the bodies of two branches exchanged.
main_with_swapped_branches(op) ==
    IF op = "PDF to Images" THEN "pdf_to_images_interface"
    ELSE IF op = "Images to PDF" THEN "images_to_pdf_interface"
    ELSE IF op = "Resize Images" THEN "compress_images_interface"
    ELSE IF op = "Compress Images" THEN "resize_images_interface"
    ELSE IF op = "OCR Text Extraction" THEN "ocr_interface"
    ELSE IF op = "PDF Security" THEN "security_interface"
    ELSE "none"

\* The interface function the chain calls ("none": no branch is taken; the
\* chain has no else).
main(op) ==
    IF op = "PDF to Images" THEN "pdf_to_images_interface"
    ELSE IF op = "Images to PDF" THEN "images_to_pdf_interface"
    ELSE IF op = "Resize Images" THEN "resize_images_interface"
    ELSE IF op = "Compress Images" THEN "compress_images_interface"
    ELSE IF op = "OCR Text Extraction" THEN "ocr_interface"
    ELSE IF op = "PDF Security" THEN "security_interface"
    ELSE "none"

\* Python truthiness of a handler's return value: None and the empty list
\* are falsy, non-empty bytes and non-empty lists are truthy.
Truthy(v) == v # None /\ (v.kind = "list" => v.items # <<>>)

PyList(items) == [kind |-> "list", items |-> items]

\* What a run of the script leaves behind.
Ran(c, out, dl) ==
    /\ call' = c
    /\ ret' = out.ret
    /\ reports' = out.reports
    /\ raised' = out.raised
    /\ download' = dl
    /\ UNCHANGED operation

Offer(data, file_name, mime) ==
    [kind |-> "file", data |-> data, file_name |-> file_name, mime |-> mime]

\* The sidebar selection changes: the script reruns and renders the chosen
\* page, whose uploader is still empty.
Select(op) ==
    /\ operation' = op
    /\ call' = NoCall
    /\ ret' = None
    /\ reports' = <<>>
    /\ raised' = FALSE
    /\ download' = NoDownload

\* A PDF the user can hand to the uploader: any file named *.pdf, or the
\* PDF offered for download by the previous run.
PdfChoices ==
    UploadedPdfs \cup
    (IF download.kind = "file" /\ download.data.kind = "pdf"
     THEN {download.data} ELSE {})

SecurityOperations == {"Encrypt PDF", "Decrypt PDF"}

\* security_interface with a file uploaded: the handler is called when the
\* button is pressed and the password is not empty.
security_interface(uploaded_file, security_operation, password, pressed) ==
    /\ main(operation) = "security_interface"
    /\ IF ~pressed \/ password = ""
       THEN Ran(NoCall, Returned(None, <<>>), NoDownload)
       ELSE IF security_operation = "Encrypt PDF"
       THEN LET out == encrypt_pdf(uploaded_file, password, OwnerDefault)
            IN Ran([fn |-> "encrypt_pdf", pdf_bytes |-> uploaded_file,
                    password |-> password,
                    security_operation |-> security_operation],
                   out,
                   IF Truthy(out.ret)
                   THEN Offer(out.ret, "encrypted.pdf", "application/octet-stream")
                   ELSE NoDownload)
       ELSE LET out == decrypt_pdf(uploaded_file, password)
            IN Ran([fn |-> "decrypt_pdf", pdf_bytes |-> uploaded_file,
                    password |-> password,
                    security_operation |-> security_operation],
                   out,
                   IF Truthy(out.ret)
                   THEN Offer(out.ret, "decrypted.pdf", "application/octet-stream")
                   ELSE NoDownload)

(***************************************************************************)
(* PDF to images.                                                          *)
(***************************************************************************)
\* st.selectbox("Output format", ["PNG", "JPEG"])
ImageFormats == {"PNG", "JPEG"}

\* st.slider("Image quality (DPI)", 72, 300, 200)
DpiMin == 72
DpiMax == 300
DpiDefault == 200
DpiValues == {d \in {DpiMin, DpiDefault, DpiMax} : DpiMin <= d /\ d <= DpiMax}

\* str.lower() on the strings it is applied to.
Lower(s) ==
    CASE s = "PNG" -> "png"
      [] s = "JPEG" -> "jpeg"
      [] s = "BMP" -> "bmp"
      [] OTHER -> s

\* page.get_pixmap(dpi).tobytes(fmt), reopened with Image.open.
PageImage(page, dpi, image_format) ==
    [kind |-> "img", readable |-> TRUE, mode |-> "RGB", format |-> image_format,
     content |-> page, pos |-> 0]

\* fitz.open raises on a malformed buffer; loading a page of a document
\* that still needs its password raises.
pdf_to_images_pymupdf(pdf_bytes, dpi, image_format) ==
    IF ~pdf_bytes.valid \/ ~PagesReadable(pdf_bytes, FALSE)
    THEN Returned(None, <<Msg("error", "Error converting PDF")>>)
    ELSE Returned(PyList([i \in 1..Len(pdf_bytes.pages) |->
                            PageImage(pdf_bytes.pages[i], dpi, image_format)]),
                  <<>>)

\* f"page_{i+1}.{image_format.lower()}", i counting from 0.
EntryName(i, image_format) == <<"page_", i + 1, ".", Lower(image_format)>>

\* The archive written by the zipfile loop: one entry per image, in order.
ZipOf(images, image_format) ==
    [kind |-> "zip",
     entries |-> [k \in 1..Len(images) |->
                    [name |-> EntryName(k - 1, image_format),
                     data |-> images[k].content]]]

\* pdf_to_images_interface with a file uploaded: the file size is shown in
\* every such run, the conversion runs when the button is pressed.
pdf_to_images_interface(uploaded_file, image_format, dpi, pressed) ==
    /\ main(operation) = "pdf_to_images_interface"
    /\ LET size == <<Msg("info", "File size")>>
           out == pdf_to_images_pymupdf(uploaded_file, dpi, image_format)
           c == [fn |-> "pdf_to_images_pymupdf", pdf_bytes |-> uploaded_file,
                 dpi |-> dpi, image_format |-> image_format]
       IN IF ~pressed
          THEN Ran(NoCall, Returned(None, size), NoDownload)
          ELSE IF Truthy(out.ret)
          THEN Ran(c,
                   Returned(out.ret,
                            size \o out.reports \o <<Msg("success", "Converted pages")>>),
                   Offer(ZipOf(out.ret.items, image_format),
                         <<"converted_images_", Lower(image_format), ".zip">>,
                         "application/zip"))
          ELSE Ran(c, Returned(out.ret, size \o out.reports), NoDownload)

(***************************************************************************)
(* Images.                                                                 *)
(***************************************************************************)
ImageIds == {"A", "B"}

\* Pillow modes an uploaded image can open in.
Modes == {"1", "L", "LA", "P", "RGB", "RGBA", "CMYK", "I;16"}

\* Modes Pillow's JPEG encoder writes (JpegImagePlugin RAWMODE).
JpegModes == {"1", "L", "RGB", "RGBX", "CMYK", "YCbCr"}

\* Modes with an alpha channel.
AlphaModes == {"LA", "RGBA", "PA"}

ImageFile(readable, mode, format, content, pos) ==
    [kind |-> "img", readable |-> readable, mode |-> mode, format |-> format,
     content |-> content, pos |-> pos]

\* A file Pillow cannot identify.
UnreadableImages == {ImageFile(FALSE, "", "", c, 0) : c \in ImageIds}

ReadableImages ==
    {ImageFile(TRUE, m, "PNG", c, 0) : m \in Modes, c \in ImageIds}
    \cup {ImageFile(TRUE, m, "JPEG", c, 0) : m \in {"L", "RGB", "CMYK"}, c \in ImageIds}

UploadedImages == UnreadableImages \cup ReadableImages

\* Image.open(fp) rewinds fp and raises when it cannot identify the image.
ImageOpens(f) == f.readable

\* st.number_input("Width", value=orig_width): no min_value, any integer.
NumberInputValues == {-1, 0, 1, 2}

\* st.slider("Compression Quality", 10, 100, 85)
QualityMin == 10
QualityMax == 100
QualityDefault == 85
QualityValues ==
    {q \in {QualityMin, QualityDefault, QualityMax} : QualityMin <= q /\ q <= QualityMax}

\* img.format if img.format else 'PNG'
FormatOrPng(format) == IF format = "" THEN "PNG" ELSE format

\* The pair resize_image returns.
ResizeResult(data, img_format) ==
    [kind |-> "pair", data |-> data, img_format |-> img_format]

resize_image(image_file, width, height) ==
    IF ~ImageOpens(image_file) \/ width <= 0 \/ height <= 0
    THEN Returned(ResizeResult(None, None), <<Msg("error", "Resize error")>>)
    ELSE Returned(ResizeResult([kind |-> "bytes",
                                format |-> FormatOrPng(image_file.format),
                                mode |-> image_file.mode,
                                content |-> image_file.content,
                                size |-> <<width, height>>],
                               Lower(FormatOrPng(image_file.format))),
                  <<>>)

\* resize_images_interface with a file uploaded.  Image.open at the top of
\* the interface runs in every such run and is outside any try; resize_image
\* is called when the button is pressed.
resize_images_interface(uploaded_file, new_width, new_height, pressed) ==
    /\ main(operation) = "resize_images_interface"
    /\ IF ~ImageOpens(uploaded_file)
       THEN Ran(NoCall, Raised(<<>>), NoDownload)
       ELSE IF ~pressed
       THEN Ran(NoCall, Returned(None, <<>>), NoDownload)
       ELSE LET out == resize_image(uploaded_file, new_width, new_height)
            IN Ran([fn |-> "resize_image", image_file |-> uploaded_file,
                    width |-> new_width, height |-> new_height],
                   out,
                   IF out.ret.data # None
                   THEN Offer(out.ret.data,
                              <<"resized_image.", out.ret.img_format>>,
                              <<"image/", out.ret.img_format>>)
                   ELSE NoDownload)

\* img.convert("RGB") when the mode is RGBA or P.
CompressMode(mode) == IF mode \in {"RGBA", "P"} THEN "RGB" ELSE mode

compress_image(image_file, quality) ==
    IF ~ImageOpens(image_file) \/ CompressMode(image_file.mode) \notin JpegModes
    THEN Returned(None, <<Msg("error", "Compression error")>>)
    ELSE Returned([kind |-> "bytes", format |-> "JPEG",
                   mode |-> CompressMode(image_file.mode),
                   content |-> image_file.content, quality |-> quality],
                  <<>>)

\* compress_images_interface with a file uploaded; compress_image is called
\* when the button is pressed.
compress_images_interface(uploaded_file, quality, pressed) ==
    /\ main(operation) = "compress_images_interface"
    /\ LET out == compress_image(uploaded_file, quality)
       IN IF ~pressed
          THEN Ran(NoCall, Returned(None, <<>>), NoDownload)
          ELSE
          Ran([fn |-> "compress_image", image_file |-> uploaded_file,
               quality |-> quality],
              out,
              IF Truthy(out.ret)
              THEN Offer(out.ret, "compressed_image.jpg", "image/jpeg")
              ELSE NoDownload)

(***************************************************************************)
(* Images to PDF.                                                          *)
(***************************************************************************)
\* Files handed to images_to_pdf_conversion: each is a file object with a
\* read cursor (0: at the start, 1: at the end, after an earlier read()).
PdfImageFiles ==
    {ImageFile(FALSE, "", "", c, p) : c \in ImageIds, p \in {0, 1}}
    \cup {ImageFile(TRUE, m, "PNG", c, p) :
            m \in {"RGB", "RGBA"}, c \in ImageIds, p \in {0, 1}}

ImageLists == SeqsUpTo(PdfImageFiles, MaxImages) \ {<<>>}

\* img_file.seek(0)
Seek0(f) == [f EXCEPT !.pos = 0]

\* img_file.read(): the bytes from the cursor to the end of the file.
ReadFrom(f) ==
    IF f.pos = 0
    THEN [kind |-> "bytes", readable |-> f.readable, mode |-> f.mode,
          content |-> f.content]
    ELSE [kind |-> "bytes", readable |-> FALSE, mode |-> "", content |-> ""]

\* The loop without img_file.seek(0).
ImgData_without_seek(image_files) ==
    [i \in 1..Len(image_files) |-> ReadFrom(image_files[i])]

\* The loop building img_data: rewind, read, append, in input order.
ImgData(image_files) ==
    [i \in 1..Len(image_files) |-> ReadFrom(Seek0(image_files[i]))]

\* img2pdf.convert raises on a buffer it cannot read and on an image with
\* an alpha channel.
Img2PdfAccepts(img_data) ==
    \A i \in 1..Len(img_data) :
        img_data[i].readable /\ img_data[i].mode \notin AlphaModes

\* img2pdf.convert(img_data): one page per buffer, in the order of the list.
Img2PdfConvert(img_data) ==
    PdfBytes(TRUE, FALSE, "", "", [i \in 1..Len(img_data) |-> img_data[i].content],
             "img2pdf")

images_to_pdf_conversion(image_files) ==
    IF ~Img2PdfAccepts(ImgData(image_files))
    THEN Returned(None, <<Msg("error", "Error creating PDF")>>)
    ELSE Returned(Img2PdfConvert(ImgData(image_files)), <<>>)

\* images_to_pdf_interface with files uploaded: the number of files is
\* shown in every such run, the conversion runs when the button is pressed.
images_to_pdf_interface(uploaded_files, pressed) ==
    /\ main(operation) = "images_to_pdf_interface"
    /\ LET selected == <<Msg("info", "Selected images")>>
           out == images_to_pdf_conversion(uploaded_files)
       IN IF ~pressed
          THEN Ran(NoCall, Returned(None, selected), NoDownload)
          ELSE
          Ran([fn |-> "images_to_pdf_conversion", image_files |-> uploaded_files],
              IF Truthy(out.ret)
              THEN Returned(out.ret,
                            selected \o out.reports \o <<Msg("success", "PDF created")>>)
              ELSE Returned(out.ret, selected \o out.reports),
              IF Truthy(out.ret)
              THEN Offer(out.ret, "converted_images.pdf", "application/pdf")
              ELSE NoDownload)

(***************************************************************************)
(* OCR.                                                                    *)
(***************************************************************************)
\* The codes of the "OCR Language" selectbox.
LanguageCodes == {"eng", "spa", "fra", "deu", "hin", "chi_sim"}

\* lang_map.get(language, 'en')
EasyocrLang(language) ==
    CASE language = "eng" -> "en"
      [] language = "spa" -> "es"
      [] language = "fra" -> "fr"
      [] language = "deu" -> "de"
      [] language = "hin" -> "hi"
      [] language = "chi_sim" -> "ch_sim"
      [] OTHER -> "en"

\* The default dpi of pdf_to_images_pymupdf.
RasterDefaultDpi == 200

\* When the rasterizer returned None, enumerate(None) raises inside the try.
perform_ocr_on_pdf(pdf_file, language) ==
    LET conv == pdf_to_images_pymupdf(pdf_file, RasterDefaultDpi, "PNG")
    IN IF conv.ret = None
       THEN Returned(None, conv.reports \o <<Msg("error", "OCR Error")>>)
       ELSE Returned(PyList([i \in 1..Len(conv.ret.items) |->
                               [page |-> i,
                                text |-> <<conv.ret.items[i].content,
                                           EasyocrLang(language)>>]]),
                     <<Msg("status", "OCR completed!")>>)

\* No try/except: Image.open raising leaves the function.
perform_ocr_on_image(image_file, language) ==
    IF ~ImageOpens(image_file)
    THEN Raised(<<>>)
    ELSE Returned([kind |-> "text",
                   text |-> <<image_file.content, EasyocrLang(language)>>],
                  <<>>)

\* ocr_interface with a file uploaded; the handler for the file's type is
\* called when the button is pressed.
ocr_interface(uploaded_file, language_code, pressed) ==
    /\ main(operation) = "ocr_interface"
    /\ IF ~pressed
       THEN Ran(NoCall, Returned(None, <<>>), NoDownload)
       ELSE IF uploaded_file.kind = "pdf"
       THEN LET out == perform_ocr_on_pdf(uploaded_file, language_code)
            IN Ran([fn |-> "perform_ocr_on_pdf", file |-> uploaded_file,
                    language |-> language_code],
                   IF Truthy(out.ret)
                   THEN Returned(out.ret,
                                 out.reports \o <<Msg("text_area", "Extracted Text")>>)
                   ELSE out,
                   NoDownload)
       ELSE LET out == perform_ocr_on_image(uploaded_file, language_code)
            IN Ran([fn |-> "perform_ocr_on_image", file |-> uploaded_file,
                    language |-> language_code],
                   IF out.raised
                   THEN out
                   ELSE Returned(out.ret,
                                 out.reports \o <<Msg("text_area", "Extracted Text")>>),
                   NoDownload)

Init ==
    /\ operation = "PDF to Images"
    /\ call = NoCall
    /\ ret = None
    /\ reports = <<>>
    /\ raised = FALSE
    /\ download = NoDownload

Next ==
    \/ \E op \in SidebarOptions : Select(op)
    \/ \E f \in PdfChoices, so \in SecurityOperations, pw \in Passwords,
          pressed \in BOOLEAN :
          security_interface(f, so, pw, pressed)
    \/ \E f \in PdfChoices, fmt \in ImageFormats, dpi \in DpiValues,
          pressed \in BOOLEAN :
          pdf_to_images_interface(f, fmt, dpi, pressed)
    \/ \E f \in UploadedImages, w \in NumberInputValues, h \in NumberInputValues,
          pressed \in BOOLEAN :
          resize_images_interface(f, w, h, pressed)
    \/ \E f \in UploadedImages, q \in QualityValues, pressed \in BOOLEAN :
          compress_images_interface(f, q, pressed)
    \/ \E fs \in ImageLists, pressed \in BOOLEAN : images_to_pdf_interface(fs, pressed)
    \/ \E f \in PdfChoices \cup UploadedImages, lang \in LanguageCodes,
          pressed \in BOOLEAN :
          ocr_interface(f, lang, pressed)

Spec == Init /\ [][Next]_vars

(***************************************************************************)
(* Properties.                                                             *)
(***************************************************************************)
Range(seq) == {seq[i] : i \in 1..Len(seq)}

ErrorReports == {m \in Range(reports) : m.level = "error"}

IncorrectPassword == Msg("error", "Incorrect password")

\* The last run called decrypt_pdf on an encrypted PDF with a password that
\* is neither its user nor its owner password.
WrongPasswordCall ==
    /\ call.fn = "decrypt_pdf"
    /\ call.pdf_bytes.valid
    /\ call.pdf_bytes.enc
    /\ call.password \notin {call.pdf_bytes.user, call.pdf_bytes.owner}

\* C1: decrypt_pdf on an encrypted PDF with a password that is not one of
\* its passwords reports exactly "Incorrect password" (never "Decryption
\* error"), returns no bytes and offers no download; and no other failure of
\* decrypt_pdf shows the "Incorrect password" report, so the report tells
\* a wrong password from every other failure.
C1_WrongPasswordReported ==
    call.fn = "decrypt_pdf" =>
        /\ WrongPasswordCall =>
              /\ reports = <<IncorrectPassword>>
              /\ ret = None
              /\ download = NoDownload
        /\ (~WrongPasswordCall /\ ret = None) => IncorrectPassword \notin Range(reports)

C1_Witness ==
    /\ WrongPasswordCall
    /\ call.pdf_bytes.user # ""
    /\ call.pdf_bytes.pages # <<>>

\* C2: decrypt_pdf on a PDF that is not encrypted returns the very buffer it
\* was given (not a copy serialised by PdfWriter), offers it for download,
\* and reports no error.
C2_UnencryptedUnchanged ==
    (call.fn = "decrypt_pdf" /\ call.pdf_bytes.valid /\ ~call.pdf_bytes.enc) =>
        /\ ret = call.pdf_bytes
        /\ download.kind = "file" /\ download.data = call.pdf_bytes
        /\ ErrorReports = {}
        /\ ~raised

C2_Witness ==
    /\ call.fn = "decrypt_pdf"
    /\ call.pdf_bytes.valid /\ ~call.pdf_bytes.enc
    /\ call.pdf_bytes.gen = "upload"
    /\ Len(call.pdf_bytes.pages) = 2
    /\ ret = call.pdf_bytes

\* Valid unencrypted PDFs, whatever produced them.
UnencryptedPdfs ==
    {PdfBytes(TRUE, FALSE, "", "", p, g) :
        p \in SeqsUpTo(PageIds, MaxPages), g \in {"upload", "writer", "img2pdf"}}

\* C3: when decrypt_pdf is given encrypt_pdf(P, pw) for a valid unencrypted
\* PDF P and a non-empty password pw, together with the same pw, its input is
\* encrypted (the password branch is taken, not the "not encrypted" one), it
\* succeeds, and the pages of its result are the pages of P in order.
C3_EncryptDecryptRoundTrip ==
    call.fn = "decrypt_pdf" =>
        \A P \in UnencryptedPdfs, pw \in Passwords \ {""} :
            (/\ call.pdf_bytes = encrypt_pdf(P, pw, OwnerDefault).ret
             /\ call.password = pw) =>
                /\ is_encrypted(call.pdf_bytes)
                /\ Msg("info", "PDF is not encrypted") \notin Range(reports)
                /\ ErrorReports = {}
                /\ ret # None
                /\ ret.pages = P.pages
                /\ ~is_encrypted(ret)

C3_Witness ==
    /\ call.fn = "decrypt_pdf"
    /\ call.pdf_bytes.gen = "writer"
    /\ \E P \in PlainPdfs :
          /\ P.pages = <<"A", "B">>
          /\ call.pdf_bytes = encrypt_pdf(P, "k1", OwnerDefault).ret
    /\ call.password = "k1"
    /\ ret # None

\* The last run rasterized a PDF that opens and whose pages can be loaded.
RasterizedValidPdf ==
    /\ call.fn = "pdf_to_images_pymupdf"
    /\ call.pdf_bytes.valid
    /\ PagesReadable(call.pdf_bytes, FALSE)

\* C4: rasterizing a valid PDF of n pages offers an archive of exactly n
\* entries, entry i holding page i and named page_i.<format in lower case>.
C4_OneEntryPerPage ==
    RasterizedValidPdf =>
        /\ download.kind = "file"
        /\ download.data.kind = "zip"
        /\ download.data.entries =
              [i \in 1..Len(call.pdf_bytes.pages) |->
                  [name |-> <<"page_", i, ".", Lower(call.image_format)>>,
                   data |-> call.pdf_bytes.pages[i]]]

\* C5: rasterizing a valid PDF with zero pages reports no error, raises
\* nothing, and offers an archive with zero entries.
C5_EmptyPdfEmptyArchive ==
    (RasterizedValidPdf /\ call.pdf_bytes.pages = <<>>) =>
        /\ ErrorReports = {}
        /\ ~raised
        /\ download.kind = "file"
        /\ download.data.kind = "zip"
        /\ download.data.entries = <<>>

\* C6: compress_image on a readable image of any mode returns JPEG bytes in
\* an opaque color model, not a failure.
C6_CompressAnyMode ==
    (call.fn = "compress_image" /\ call.image_file.readable) =>
        /\ ret # None
        /\ ret.format = "JPEG"
        /\ ret.mode \notin AlphaModes \cup {"P"}
        /\ ErrorReports = {}

\* The handler called by the last run failed: it returned None (resize_image:
\* the pair None, None).
HandlerFailed ==
    /\ call # NoCall
    /\ \/ ret = None
       \/ ret.kind = "pair" /\ ret.data = None

\* C7: no exception leaves a handler or the interface function that called
\* it; a handler that fails shows an error report and offers no result.
C7_NoExceptionPropagates ==
    /\ ~raised
    /\ HandlerFailed => ErrorReports # {} /\ download = NoDownload

\* The interface function that serves each sidebar value.
OwnInterface ==
    [op \in SidebarOptions |->
        CASE op = "PDF to Images" -> "pdf_to_images_interface"
          [] op = "Images to PDF" -> "images_to_pdf_interface"
          [] op = "Resize Images" -> "resize_images_interface"
          [] op = "Compress Images" -> "compress_images_interface"
          [] op = "OCR Text Extraction" -> "ocr_interface"
          [] op = "PDF Security" -> "security_interface"]

\* The handlers an interface function may call.
HandlersOf(interface) ==
    CASE interface = "pdf_to_images_interface" -> {"pdf_to_images_pymupdf"}
      [] interface = "images_to_pdf_interface" -> {"images_to_pdf_conversion"}
      [] interface = "resize_images_interface" -> {"resize_image"}
      [] interface = "compress_images_interface" -> {"compress_image"}
      [] interface = "ocr_interface" -> {"perform_ocr_on_pdf", "perform_ocr_on_image"}
      [] interface = "security_interface" -> {"encrypt_pdf", "decrypt_pdf"}
      [] OTHER -> {}

\* The handler that serves the choice made in the security selectbox.
SecurityHandler(security_operation) ==
    IF security_operation = "Encrypt PDF" THEN "encrypt_pdf" ELSE "decrypt_pdf"

\* The operation selected is routed to its own interface function, and a
\* handler called is one of that interface's own (for the security page: the
\* one of the security operation chosen).
RoutedToOwnHandler ==
    operation \in SidebarOptions =>
        /\ main(operation) = OwnInterface[operation]
        /\ call # NoCall =>
              /\ call.fn \in HandlersOf(OwnInterface[operation])
              /\ call.fn \in {"encrypt_pdf", "decrypt_pdf"} =>
                    call.fn = SecurityHandler(call.security_operation)

\* Values that are none of the labels of the selectbox.  The selectbox
\* never returns one; the if/elif chain is defined on them all the same.
OtherIds == {"Unlisted", ""}

\* C8: an operation of the fixed set is routed to its own handler and no
\* other; for an id outside the set the dispatcher fails with
\* UnsupportedOperation.
C8_DispatchOrUnsupported ==
    /\ RoutedToOwnHandler
    /\ \A id \in OtherIds : main(id) = "UnsupportedOperation"

\* C8, amended: the operation dispatched is always one of the fixed set and
\* is routed to its own handler and no other; for a value outside the set
\* the chain has no branch (it would call nothing and fail with nothing).
C8_DispatchOrNothing ==
    /\ operation \in SidebarOptions
    /\ RoutedToOwnHandler
    /\ \A id \in OtherIds : main(id) = "none"

C8_Witness ==
    /\ operation = "PDF Security"
    /\ call.fn = "decrypt_pdf"
    /\ call.security_operation = "Decrypt PDF"
    /\ ret # None

\* The files of the list are all images img2pdf embeds.
AllEmbeddable(image_files) ==
    \A i \in 1..Len(image_files) :
        image_files[i].readable /\ image_files[i].mode \notin AlphaModes

\* C9: images_to_pdf_conversion hands the images to the PDF builder whole
\* and in input order: whenever it returns a PDF, page i of it is image i of
\* the input, and it returns one whenever every input is an image the
\* builder embeds, wherever the files' read cursors stood.
C9_PagesInInputOrder ==
    call.fn = "images_to_pdf_conversion" =>
        /\ ret # None =>
              ret.pages = [i \in 1..Len(call.image_files) |-> call.image_files[i].content]
        /\ AllEmbeddable(call.image_files) => ret # None

C9_Witness ==
    /\ call.fn = "images_to_pdf_conversion"
    /\ Len(call.image_files) = 2
    /\ call.image_files[1].content = "A" /\ call.image_files[2].content = "B"
    /\ call.image_files[1].pos = 1
    /\ ret # None
    /\ ret.pages = <<"A", "B">>

\* C10: every option value an interface function passes to a handler lies
\* in the handler's valid range.
C10_OptionsInRange ==
    /\ call.fn = "pdf_to_images_pymupdf" =>
          /\ DpiMin <= call.dpi /\ call.dpi <= DpiMax
          /\ call.image_format \in {"PNG", "JPEG"}
    /\ call.fn = "compress_image" =>
          QualityMin <= call.quality /\ call.quality <= QualityMax
    /\ call.fn = "resize_image" => call.width > 0 /\ call.height > 0
    /\ call.fn \in {"perform_ocr_on_pdf", "perform_ocr_on_image"} =>
          call.language \in LanguageCodes
    /\ call.fn \in {"encrypt_pdf", "decrypt_pdf"} => call.password # ""

====
